---- MODULE Spec2Model ----
(***************************************************************************)
(* Model of src/model/array.rs: `Array`, the reference counted array with  *)
(* value semantics of the typst runtime value model.                       *)
(*                                                                         *)
(* An Array wraps an EcoVec<Value>: a reference counted, copy-on-write     *)
(* buffer.  The model keeps a heap of buffers with their reference counts  *)
(* and a set of Array handles pointing into it (Spec, SpecRT), and applies *)
(* the read-only methods to the array of handle 1 (SpecPure, SpecHof).     *)
(*                                                                         *)
(* i64 is scaled down to IntBits bits; usize is a per-build width: either  *)
(* as wide as i64 (a 64-bit target) or narrower (a 32-bit target such as   *)
(* wasm32).                                                                *)
(***************************************************************************)
EXTENDS Integers, Sequences, FiniteSets

VARIABLES
    usizeMax,   \* usize::MAX of the build
    bufs,       \* the EcoVec allocations: buffer id -> [items, rc]
    arr,        \* the Array handles: handle -> buffer id, 0 when not alive
    last,       \* the last mutating call: method, receiver, arguments, outcome
    prev,       \* the call before `last` (kept only when `tracing`)
    tracing,    \* whether calls are remembered with their arguments and results
    fuel,       \* when tracing: the number of calls still to be made
    out         \* the last read-only call: method, arguments, outcome

vars == <<usizeMax, bufs, arr, last, prev, tracing, fuel, out>>

----------------------------------------------------------------------------
(* Bounds *)

MaxLen == 3         \* longest array built
IntBits == 4        \* bits of the scaled-down i64

(* i64::MIN, i64::MAX, and the two usize::MAX the builds have *)
Pow2(n) == 2 ^ n
IntMax == Pow2(IntBits - 1) - 1
IntMin == -Pow2(IntBits - 1)
I64 == IntMin..IntMax
WideUsizeMax == Pow2(IntBits) - 1
NarrowUsizeMax == Pow2(IntBits - 2) - 1
Platforms == {NarrowUsizeMax, WideUsizeMax}

Min(a, b) == IF a < b THEN a ELSE b
Max(a, b) == IF a < b THEN b ELSE a

(* The longest array the build can hold within the model's bound. *)
Cap == Min(MaxLen, usizeMax)

----------------------------------------------------------------------------
(* Value: the polymorphic element type (super::Value).  A value has a type *)
(* name and a payload; the payload is an integer in the model.             *)

V(t, k) == [t |-> t, k |-> k]
NoneV == V("none", 0)
Int1 == V("integer", 1)
Int2 == V("integer", 2)
Float1 == V("float", 1)
StrA == V("string", 1)
BoolV(b) == V("boolean", IF b THEN 1 ELSE 0)

Values == {Int1, Int2, Float1, StrA}
CowValues == {Int1, Int2}

type_name(v) == v.t

Numeric(v) == v.t \in {"integer", "float"}

(* Value::partial_cmp: numbers compare with numbers, strings with strings; *)
(* any other pair is incomparable.                                         *)
partial_cmp(a, b) ==
    IF (Numeric(a) /\ Numeric(b)) \/ (a.t = b.t)
    THEN [some |-> TRUE,
          ord |-> IF a.k < b.k THEN "Less" ELSE IF a.k > b.k THEN "Greater" ELSE "Equal"]
    ELSE [some |-> FALSE, ord |-> "Equal"]

RECURSIVE SeqsUpTo(_, _)
SeqsUpTo(S, n) ==
    IF n = 0 THEN {<<>>}
    ELSE LET shorter == SeqsUpTo(S, n - 1)
         IN shorter \cup {Append(s, x) : s \in {t \in shorter : Len(t) = n - 1}, x \in S}

----------------------------------------------------------------------------
(* Option<T>, errors and results *)

None == [some |-> FALSE, v |-> 0]
Some(x) == [some |-> TRUE, v |-> x]

NoErr == [kind |-> "none", index |-> 0, len |-> 0, ta |-> "", tb |-> ""]
Err(kind, index, n) == [kind |-> kind, index |-> index, len |-> n, ta |-> "", tb |-> ""]

out_of_bounds(index, n) == Err("array index out of bounds", index, n)
array_is_empty == Err("array is empty", 0, 0)

(* The result of a call: Ok with a value, an optional value, an index, a    *)
(* boolean or an array, whichever the method returns; or Err.               *)
Res0 == [ok |-> TRUE, some |-> FALSE, val |-> NoneV, num |-> 0, flag |-> FALSE,
         items |-> <<>>, err |-> NoErr]
OkUnit == Res0
OkVal(v) == [Res0 EXCEPT !.val = v]
OkSome(v) == [Res0 EXCEPT !.some = TRUE, !.val = v]
OkIdx(i) == [Res0 EXCEPT !.some = TRUE, !.num = i]
OkNone == Res0
OkBool(b) == [Res0 EXCEPT !.flag = b]
OkArr(s) == [Res0 EXCEPT !.items = s]
Fail(e) == [Res0 EXCEPT !.ok = FALSE, !.err = e]

----------------------------------------------------------------------------
(* Integer conversions *)

usize_try_from(x) == IF 0 <= x /\ x <= usizeMax THEN Some(x) ELSE None
checked_add(a, b) == IF a + b \in I64 THEN Some(a + b) ELSE None
checked_mul(a, b) == IF a * b <= usizeMax THEN Some(a * b) ELSE None

(* Array::len *)
len(s) == Len(s)

(* Array::locate: resolve an index *)
locate(s, index) ==
    IF index >= 0 THEN usize_try_from(index)
    ELSE LET sum == checked_add(len(s), index)
         IN IF sum.some THEN usize_try_from(sum.v) ELSE None

(* Option::filter(|&i| i <= n) and Option::filter(|&i| i < n) *)
filter_le(o, n) == IF o.some /\ o.v <= n THEN o ELSE None
filter_lt(o, n) == IF o.some /\ o.v < n THEN o ELSE None

----------------------------------------------------------------------------
(* EcoVec<Value>: the reference counted copy-on-write buffer behind Array. *)
(* A heap H is [bufs, arr]: the allocations with their reference counts,   *)
(* and the owners.  Owner 0 is a local of the running method.              *)

Handles == {1, 2}
Tmp == 0
Owners == {Tmp} \cup Handles
BufIds == {1, 2, 3}

FreeBufRec == [items |-> <<>>, rc |-> 0]
Heap == [bufs |-> bufs, arr |-> arr]

Alive(H, h) == H.arr[h] # 0
Items(H, h) == H.bufs[H.arr[h]].items
View(h) == Items(Heap, h)

FreeBuf(H) ==
    CHOOSE b \in BufIds :
        /\ H.bufs[b].rc = 0
        /\ \A c \in BufIds : H.bufs[c].rc = 0 => b <= c

(* An owner takes a fresh allocation holding `items`. *)
Alloc(H, h, items) ==
    LET b == FreeBuf(H)
    IN [bufs |-> [H.bufs EXCEPT ![b] = [items |-> items, rc |-> 1]],
        arr |-> [H.arr EXCEPT ![h] = b]]

(* An owner gives up its reference; the last one frees the allocation. *)
Release(H, h) ==
    LET b == H.arr[h]
    IN [bufs |-> [H.bufs EXCEPT ![b] =
                    IF @.rc = 1 THEN FreeBufRec ELSE [@ EXCEPT !.rc = @ - 1]],
        arr |-> [H.arr EXCEPT ![h] = 0]]

(* EcoVec::clone: the new owner shares the allocation. *)
EcoClone(H, h, g) ==
    LET b == H.arr[h]
    IN [bufs |-> [H.bufs EXCEPT ![b].rc = @ + 1],
        arr |-> [H.arr EXCEPT ![g] = b]]

is_unique(H, h) == H.bufs[H.arr[h]].rc = 1

(* EcoVec::make_mut / make_unique / reserve: before a write the owner must *)
(* hold the allocation alone; a shared one is copied first.                *)
make_mut(H, h) ==
    IF is_unique(H, h) THEN H
    ELSE LET items == Items(H, h)
         IN Alloc(Release(H, h), h, items)

(* A write into the allocation the owner holds. *)
Store(H, h, items) == [H EXCEPT !.bufs[H.arr[h]].items = items]

(* slice::first_mut, last_mut, get_mut followed by the caller's write *)
SetAt(s, i, v) == [s EXCEPT ![i + 1] = v]
(* Vec-like insert and remove at a storage offset *)
InsertAt(s, i, v) == SubSeq(s, 1, i) \o <<v>> \o SubSeq(s, i + 1, Len(s))
RemoveAt(s, i) == SubSeq(s, 1, i) \o SubSeq(s, i + 2, Len(s))

----------------------------------------------------------------------------
(* The mutating methods of Array, as functions from the heap before the    *)
(* call to [H: the heap after, res: what the call returns].                *)

Ret(H, res) == [H |-> H, res |-> res]

(* Array::first_mut, and the caller's write of v through the reference *)
first_mut(H, h, v) ==
    LET H1 == make_mut(H, h)
    IN IF Len(Items(H1, h)) = 0 THEN Ret(H1, Fail(array_is_empty))
       ELSE Ret(Store(H1, h, SetAt(Items(H1, h), 0, v)), OkUnit)

(* Array::last_mut, and the caller's write of v through the reference *)
last_mut(H, h, v) ==
    LET H1 == make_mut(H, h)
        n == Len(Items(H1, h))
    IN IF n = 0 THEN Ret(H1, Fail(array_is_empty))
       ELSE Ret(Store(H1, h, SetAt(Items(H1, h), n - 1, v)), OkUnit)

(* Array::at_mut, and the caller's write of v through the reference *)
at_mut(H, h, index, v) ==
    LET s == Items(H, h)
        n == len(s)
        i == locate(s, index)
    IN IF ~i.some THEN Ret(H, Fail(out_of_bounds(index, n)))
       ELSE LET H1 == make_mut(H, h)
            IN IF i.v < Len(s)
               THEN Ret(Store(H1, h, SetAt(s, i.v, v)), OkUnit)
               ELSE Ret(H1, Fail(out_of_bounds(index, n)))

(* Mutant: push writes into the buffer without making it unique. *)
push_in_place(H, h, value) ==
    Ret(Store(H, h, Append(Items(H, h), value)), OkUnit)

(* Array::push *)
push(H, h, value) ==
    LET H1 == make_mut(H, h)
    IN Ret(Store(H1, h, Append(Items(H1, h), value)), OkUnit)

(* Array::pop *)
pop(H, h) ==
    LET s == Items(H, h)
    IN IF Len(s) = 0 THEN Ret(H, Fail(array_is_empty))
       ELSE Ret(Store(make_mut(H, h), h, SubSeq(s, 1, Len(s) - 1)), OkVal(s[Len(s)]))

(* Mutant: insert clamps an index past the end instead of refusing it. *)
insert_clamped(H, h, index, value) ==
    LET s == Items(H, h)
        n == len(s)
        i == locate(s, index)
    IN IF ~i.some THEN Ret(H, Fail(out_of_bounds(index, n)))
       ELSE Ret(Store(make_mut(H, h), h, InsertAt(s, Min(i.v, Len(s)), value)), OkUnit)

(* Array::insert *)
insert(H, h, index, value) ==
    LET s == Items(H, h)
        n == len(s)
        i == filter_le(locate(s, index), Len(s))
    IN IF ~i.some THEN Ret(H, Fail(out_of_bounds(index, n)))
       ELSE Ret(Store(make_mut(H, h), h, InsertAt(s, i.v, value)), OkUnit)

(* Mutant: remove returns the element and leaves it in the array. *)
remove_peek(H, h, index) ==
    LET s == Items(H, h)
        n == len(s)
        i == filter_lt(locate(s, index), Len(s))
    IN IF ~i.some THEN Ret(H, Fail(out_of_bounds(index, n)))
       ELSE Ret(make_mut(H, h), OkVal(s[i.v + 1]))

(* Array::remove *)
remove(H, h, index) ==
    LET s == Items(H, h)
        n == len(s)
        i == filter_lt(locate(s, index), Len(s))
    IN IF ~i.some THEN Ret(H, Fail(out_of_bounds(index, n)))
       ELSE Ret(Store(make_mut(H, h), h, RemoveAt(s, i.v)), OkVal(s[i.v + 1]))

(* Extend for Array: EcoVec::extend reserves (and so unshares) only when   *)
(* the iterator yields something.                                          *)
extend(H, h, vs) ==
    IF Len(vs) = 0 THEN Ret(H, OkUnit)
    ELSE LET H1 == make_mut(H, h)
         IN Ret(Store(H1, h, Items(H1, h) \o vs), OkUnit)

(* AddAssign for Array: rhs is moved in, iterated and dropped. *)
add_assign(H, h, rhs) ==
    LET vs == Items(H, rhs)
        H1 == extend(H, h, vs).H
    IN Ret(Release(H1, rhs), OkUnit)

(* Clone for Array (derived): g becomes a new handle sharing h's buffer. *)
clone(H, h, g) == Ret(EcoClone(H, h, g), OkUnit)

(* Drop of an Array handle *)
drop(H, h) == Ret(Release(H, h), OkUnit)

----------------------------------------------------------------------------
(* The read-only methods of Array, as functions of the elements s of &self *)

(* Mutant: at takes the index as an offset, without the negative wrap. *)
at_no_wrap(s, index) ==
    LET i == usize_try_from(index)
    IN IF i.some /\ i.v < Len(s) THEN OkVal(s[i.v + 1])
       ELSE Fail(out_of_bounds(index, len(s)))

(* Array::at *)
at(s, index) ==
    LET i == locate(s, index)
    IN IF i.some /\ i.v < Len(s) THEN OkVal(s[i.v + 1])
       ELSE Fail(out_of_bounds(index, len(s)))

(* Mutant: slice clamps the end with min(start) instead of max(start). *)
slice_min(s, start, end) ==
    LET n == len(s)
        st == filter_le(locate(s, start), Len(s))
        e0 == IF end.some THEN end.v ELSE len(s)
        en == filter_le(locate(s, e0), Len(s))
    IN IF ~st.some THEN Fail(out_of_bounds(start, n))
       ELSE IF ~en.some THEN Fail(out_of_bounds(e0, n))
       ELSE OkArr(SubSeq(s, st.v + 1, Min(en.v, st.v)))

(* Array::slice; end is an Option<i64> *)
slice(s, start, end) ==
    LET n == len(s)
        st == filter_le(locate(s, start), Len(s))
        e0 == IF end.some THEN end.v ELSE len(s)
        en == filter_le(locate(s, e0), Len(s))
    IN IF ~st.some THEN Fail(out_of_bounds(start, n))
       ELSE IF ~en.some THEN Fail(out_of_bounds(e0, n))
       ELSE OkArr(SubSeq(s, st.v + 1, Max(en.v, st.v)))

CannotRepeat(n) == Err("cannot repeat this array", n, 0)

(* Mutant: repeat multiplies with wrap-around instead of checked_mul. *)
repeat_wrapping(s, n) ==
    LET k == usize_try_from(n)
        count == IF k.some THEN Some((Len(s) * k.v) % (usizeMax + 1)) ELSE None
    IN IF ~count.some THEN Fail(CannotRepeat(n))
       ELSE IF count.v = 0 THEN OkArr(<<>>)
       ELSE OkArr([j \in 1..count.v |-> s[((j - 1) % Len(s)) + 1]])

(* Array::repeat *)
repeat(s, n) ==
    LET k == usize_try_from(n)
        count == IF k.some THEN checked_mul(Len(s), k.v) ELSE None
    IN IF ~count.some THEN Fail(CannotRepeat(n))
       ELSE IF count.v = 0 THEN OkArr(<<>>)
       ELSE OkArr([j \in 1..count.v |-> s[((j - 1) % Len(s)) + 1]])

CannotOrder(ta, tb) ==
    [kind |-> "cannot order", index |-> 0, len |-> 0, ta |-> ta, tb |-> tb]

(* Mutant: the closure keeps the last incomparable pair, not the first. *)
compare_keeps_last(st, a, b) ==
    LET c == partial_cmp(a, b)
    IN [st |-> [st EXCEPT
                  !.result = IF ~c.some
                             THEN Fail(CannotOrder(type_name(a), type_name(b)))
                             ELSE @,
                  !.calls = Append(@, <<a, b>>)],
        ord |-> IF c.some THEN c.ord ELSE "Equal"]

(* The closure given to sort_by in Array::sorted, called on (a, b) while   *)
(* the sort is in state st = [vec, result, calls]: an incomparable pair    *)
(* counts as equal, and the first one met is kept as the error.  `calls`   *)
(* lists the pairs the closure was called on.                              *)
compare(st, a, b) ==
    LET c == partial_cmp(a, b)
    IN [st |-> [st EXCEPT
                  !.result = IF ~c.some /\ st.result.ok
                             THEN Fail(CannotOrder(type_name(a), type_name(b)))
                             ELSE @,
                  !.calls = Append(@, <<a, b>>)],
        ord |-> IF c.some THEN c.ord ELSE "Equal"]

(* slice::sort_by on a short slice: a stable insertion sort that inserts   *)
(* v[i] into the sorted v[i+1..], for i from the last but one down to the  *)
(* first; is_less(x, y) is compare(x, y) = Less.                           *)
RECURSIVE insert_tail(_, _, _)
insert_tail(st, tmp, j) ==
    IF j > Len(st.vec) THEN [st EXCEPT !.vec[j - 1] = tmp]
    ELSE LET c == compare(st, st.vec[j], tmp)
         IN IF c.ord # "Less" THEN [c.st EXCEPT !.vec[j - 1] = tmp]
            ELSE insert_tail([c.st EXCEPT !.vec[j - 1] = st.vec[j]], tmp, j + 1)

insert_head(st, i) ==
    IF Len(st.vec) - i + 1 < 2 THEN st
    ELSE LET c == compare(st, st.vec[i + 1], st.vec[i])
         IN IF c.ord # "Less" THEN c.st
            ELSE insert_tail([c.st EXCEPT !.vec[i] = st.vec[i + 1]], st.vec[i], i + 2)

RECURSIVE sort_from(_, _)
sort_from(st, i) == IF i < 1 THEN st ELSE sort_from(insert_head(st, i), i - 1)

sort_by(s) == sort_from([vec |-> s, result |-> OkUnit, calls |-> <<>>], Len(s) - 1)

(* Array::sorted on handle h: the buffer is cloned into a local, the local *)
(* is made unique and sorted in place, and it is returned (here: by value) *)
(* or dropped.                                                             *)
sorted(H, h) ==
    LET H1 == make_mut(EcoClone(H, h, Tmp), Tmp)
        st == sort_by(Items(H1, Tmp))
        H2 == Store(H1, Tmp, st.vec)
    IN [H |-> Release(H2, Tmp),
        res |-> IF st.result.ok THEN OkArr(Items(H2, Tmp)) ELSE st.result,
        calls |-> st.calls]

----------------------------------------------------------------------------
(* The higher-order methods.  The callable (Func) is its parameter count   *)
(* argc, an Option<usize>, and an oracle: the outcome of its 1st, 2nd, ... *)
(* invocation, each a returned value or a failure.  A method returns       *)
(* [res, calls]: its result and the argument lists it invoked the callable *)
(* on, in order.                                                           *)

Returns(v) == [fails |-> FALSE, val |-> v]
Raises == [fails |-> TRUE, val |-> NoneV]
Outcomes == {Raises, Returns(BoolV(TRUE)), Returns(BoolV(FALSE)), Returns(Int1)}

(* The failure of the k-th invocation, and of the cast of its result. *)
CallFailed(k) == Err("callable failed", k, 0)
CastFailed(k) == Err("expected boolean", k, 0)
ExactlyOne == Err("function must have exactly one parameter", 0, 0)
OneOrTwo == Err("function must have one or two parameters", 0, 0)
ExactlyTwo == Err("function must have exactly two parameters", 0, 0)

Done(res, calls) == [res |-> res, calls |-> calls]

(* func.argc().map_or(false, |count| count != n) *)
ArgcIsNot(argc, n) == argc.some /\ argc.v # n

(* func.call(vm, args)?.cast::<bool>().at(func.span())? as the k-th call *)
test(oracle, k) ==
    IF oracle[k].fails THEN [ok |-> FALSE, flag |-> FALSE, err |-> CallFailed(k)]
    ELSE IF oracle[k].val.t # "boolean" THEN [ok |-> FALSE, flag |-> FALSE, err |-> CastFailed(k)]
    ELSE [ok |-> TRUE, flag |-> oracle[k].val = BoolV(TRUE), err |-> NoErr]

RECURSIVE find_from(_, _, _, _)
find_from(s, oracle, i, calls) ==
    IF i > Len(s) THEN Done(OkNone, calls)
    ELSE LET args == Append(calls, <<s[i]>>)
             r == test(oracle, Len(args))
         IN IF ~r.ok THEN Done(Fail(r.err), args)
            ELSE IF r.flag THEN Done(OkSome(s[i]), args)
            ELSE find_from(s, oracle, i + 1, args)

(* Array::find *)
find(s, argc, oracle) ==
    IF ArgcIsNot(argc, 1) THEN Done(Fail(ExactlyOne), <<>>)
    ELSE find_from(s, oracle, 1, <<>>)

RECURSIVE position_from(_, _, _, _)
position_from(s, oracle, i, calls) ==
    IF i > Len(s) THEN Done(OkNone, calls)
    ELSE LET args == Append(calls, <<s[i]>>)
             r == test(oracle, Len(args))
         IN IF ~r.ok THEN Done(Fail(r.err), args)
            ELSE IF r.flag THEN Done(OkIdx(i - 1), args)
            ELSE position_from(s, oracle, i + 1, args)

(* Array::position *)
position(s, argc, oracle) ==
    IF ArgcIsNot(argc, 1) THEN Done(Fail(ExactlyOne), <<>>)
    ELSE position_from(s, oracle, 1, <<>>)

RECURSIVE filter_from(_, _, _, _, _)
filter_from(s, oracle, i, calls, kept) ==
    IF i > Len(s) THEN Done(OkArr(kept), calls)
    ELSE LET args == Append(calls, <<s[i]>>)
             r == test(oracle, Len(args))
         IN IF ~r.ok THEN Done(Fail(r.err), args)
            ELSE filter_from(s, oracle, i + 1, args, IF r.flag THEN Append(kept, s[i]) ELSE kept)

(* Array::filter *)
filter(s, argc, oracle) ==
    IF ArgcIsNot(argc, 1) THEN Done(Fail(ExactlyOne), <<>>)
    ELSE filter_from(s, oracle, 1, <<>>, <<>>)

(* Array::map; collecting into a SourceResult stops at the first Err. *)
RECURSIVE map_from(_, _, _, _, _, _)
map_from(s, oracle, enumerate, i, calls, mapped) ==
    IF i > Len(s) THEN Done(OkArr(mapped), calls)
    ELSE LET args == Append(calls, IF enumerate THEN <<V("integer", i - 1), s[i]>>
                                                ELSE <<s[i]>>)
             k == Len(args)
         IN IF oracle[k].fails THEN Done(Fail(CallFailed(k)), args)
            ELSE map_from(s, oracle, enumerate, i + 1, args, Append(mapped, oracle[k].val))

(* Mutant: map accepts a callable of three parameters. *)
map_accepts_three(s, argc, oracle) ==
    IF argc.some /\ ~(1 <= argc.v /\ argc.v <= 3) THEN Done(Fail(OneOrTwo), <<>>)
    ELSE map_from(s, oracle, argc = Some(2), 1, <<>>, <<>>)

map(s, argc, oracle) ==
    IF argc.some /\ ~(1 <= argc.v /\ argc.v <= 2) THEN Done(Fail(OneOrTwo), <<>>)
    ELSE map_from(s, oracle, argc = Some(2), 1, <<>>, <<>>)

RECURSIVE fold_from(_, _, _, _, _)
fold_from(s, oracle, i, calls, acc) ==
    IF i > Len(s) THEN Done(OkVal(acc), calls)
    ELSE LET args == Append(calls, <<acc, s[i]>>)
             k == Len(args)
         IN IF oracle[k].fails THEN Done(Fail(CallFailed(k)), args)
            ELSE fold_from(s, oracle, i + 1, args, oracle[k].val)

(* Mutant: fold skips an element whose call fails and goes on. *)
RECURSIVE fold_skipping(_, _, _, _, _)
fold_skipping(s, oracle, i, calls, acc) ==
    IF i > Len(s) THEN Done(OkVal(acc), calls)
    ELSE LET args == Append(calls, <<acc, s[i]>>)
             k == Len(args)
         IN fold_skipping(s, oracle, i + 1, args,
                          IF oracle[k].fails THEN acc ELSE oracle[k].val)

fold_lenient(s, init, argc, oracle) ==
    IF ArgcIsNot(argc, 2) THEN Done(Fail(ExactlyTwo), <<>>)
    ELSE fold_skipping(s, oracle, 1, <<>>, init)

(* Array::fold *)
fold(s, init, argc, oracle) ==
    IF ArgcIsNot(argc, 2) THEN Done(Fail(ExactlyTwo), <<>>)
    ELSE fold_from(s, oracle, 1, <<>>, init)

RECURSIVE any_from(_, _, _, _)
any_from(s, oracle, i, calls) ==
    IF i > Len(s) THEN Done(OkBool(FALSE), calls)
    ELSE LET args == Append(calls, <<s[i]>>)
             r == test(oracle, Len(args))
         IN IF ~r.ok THEN Done(Fail(r.err), args)
            ELSE IF r.flag THEN Done(OkBool(TRUE), args)
            ELSE any_from(s, oracle, i + 1, args)

(* Mutant: any tests every element and returns whether one matched. *)
any_eager(s, argc, oracle) ==
    IF ArgcIsNot(argc, 1) THEN Done(Fail(ExactlyOne), <<>>)
    ELSE LET r == filter_from(s, oracle, 1, <<>>, <<>>)
         IN IF r.res.ok THEN Done(OkBool(r.res.items # <<>>), r.calls) ELSE r

(* Array::any *)
any(s, argc, oracle) ==
    IF ArgcIsNot(argc, 1) THEN Done(Fail(ExactlyOne), <<>>)
    ELSE any_from(s, oracle, 1, <<>>)

RECURSIVE all_from(_, _, _, _)
all_from(s, oracle, i, calls) ==
    IF i > Len(s) THEN Done(OkBool(TRUE), calls)
    ELSE LET args == Append(calls, <<s[i]>>)
             r == test(oracle, Len(args))
         IN IF ~r.ok THEN Done(Fail(r.err), args)
            ELSE IF ~r.flag THEN Done(OkBool(FALSE), args)
            ELSE all_from(s, oracle, i + 1, args)

(* Array::all *)
all(s, argc, oracle) ==
    IF ArgcIsNot(argc, 1) THEN Done(Fail(ExactlyOne), <<>>)
    ELSE all_from(s, oracle, 1, <<>>)

----------------------------------------------------------------------------
(* The calls on Array handles *)

NoCall == [op |-> "none", h |-> 0, index |-> 0, value |-> NoneV, vs |-> <<>>,
           shared |-> FALSE, lives |-> {}, before |-> <<>>, res |-> Res0]
NoOut == [op |-> "none", a |-> 0, b |-> 0, opt |-> FALSE, argc |-> None, init |-> NoneV,
          oracle |-> <<>>, self |-> <<>>, calls |-> <<>>, res |-> Res0]

EmptyHeap ==
    [bufs |-> [b \in BufIds |-> FreeBufRec], arr |-> [h \in Owners |-> 0]]

(* A call of method `op` on handle h with outcome r: the heap becomes r.H. *)
(* The call is remembered: in full (arguments, the receiver's elements     *)
(* before it, the result) when tracing, else by method, receiver and       *)
(* success alone.                                                          *)
Remembered(op, h, index, value, vs, res) ==
    IF tracing
    THEN [op |-> op, h |-> h, index |-> index, value |-> value, vs |-> vs,
          shared |-> ~is_unique(Heap, h), lives |-> {g \in Handles : Alive(Heap, g)},
          before |-> [g \in Handles |-> IF Alive(Heap, g) THEN View(g) ELSE <<>>],
          res |-> res]
    ELSE [NoCall EXCEPT !.op = op, !.h = h, !.shared = ~is_unique(Heap, h),
                        !.res = IF res.ok THEN OkUnit ELSE Fail(NoErr)]

(* When tracing, calls are made while fuel lasts. *)
CanCall == tracing => fuel > 0

Call(op, h, index, value, vs, r) ==
    /\ CanCall
    /\ bufs' = r.H.bufs
    /\ arr' = r.H.arr
    /\ last' = Remembered(op, h, index, value, vs, r.res)
    /\ prev' = IF tracing THEN last ELSE prev
    /\ fuel' = IF tracing THEN fuel - 1 ELSE fuel
    /\ UNCHANGED <<usizeMax, tracing, out>>

Live(h) == Alive(Heap, h)
Room(h, n) == Len(View(h)) + n <= Cap

Clone(h, g) ==
    /\ Live(h) /\ ~Live(g)
    /\ Call("clone", h, 0, NoneV, <<>>, clone(Heap, h, g))

Drop(h) ==
    /\ Live(h) /\ \E g \in Handles \ {h} : Live(g)
    /\ Call("drop", h, 0, NoneV, <<>>, drop(Heap, h))

FirstMut(h, v) == Live(h) /\ Call("first_mut", h, 0, v, <<>>, first_mut(Heap, h, v))

LastMut(h, v) == Live(h) /\ Call("last_mut", h, 0, v, <<>>, last_mut(Heap, h, v))

AtMut(h, index, v) ==
    Live(h) /\ Call("at_mut", h, index, v, <<>>, at_mut(Heap, h, index, v))

Push(h, v) == Live(h) /\ Room(h, 1) /\ Call("push", h, 0, v, <<>>, push(Heap, h, v))

Pop(h) == Live(h) /\ Call("pop", h, 0, NoneV, <<>>, pop(Heap, h))

Insert(h, index, v) ==
    /\ Live(h)
    /\ Len(Items(insert(Heap, h, index, v).H, h)) <= Cap
    /\ Call("insert", h, index, v, <<>>, insert(Heap, h, index, v))

Remove(h, index) ==
    Live(h) /\ Call("remove", h, index, NoneV, <<>>, remove(Heap, h, index))

Extend(h, vs) ==
    Live(h) /\ Room(h, Len(vs)) /\ Call("extend", h, 0, NoneV, vs, extend(Heap, h, vs))

AddAssign(h, rhs) ==
    /\ Live(h) /\ Live(rhs) /\ h # rhs /\ Room(h, Len(View(rhs)))
    /\ Call("add_assign", h, 0, NoneV, View(rhs), add_assign(Heap, h, rhs))

(* Array::new(): one handle, empty. *)
Init ==
    /\ usizeMax \in Platforms
    /\ bufs = Alloc(EmptyHeap, 1, <<>>).bufs
    /\ arr = Alloc(EmptyHeap, 1, <<>>).arr
    /\ last = NoCall
    /\ prev = NoCall
    /\ tracing = FALSE
    /\ fuel = 0
    /\ out = NoOut

(* The indices tried: every i64 when tracing, else those around the bounds  *)
(* of the arrays built.                                                    *)
Indices == IF tracing THEN I64 ELSE (-(MaxLen + 2))..(MaxLen + 1)

Next ==
    \/ CanCall /\ \E h \in Handles, g \in Handles : Clone(h, g)
    \/ CanCall /\ \E h \in Handles : Drop(h)
    \/ CanCall /\ \E h \in Handles, v \in CowValues : FirstMut(h, v)
    \/ CanCall /\ \E h \in Handles, v \in CowValues : LastMut(h, v)
    \/ CanCall /\ \E h \in Handles, index \in Indices, v \in CowValues : AtMut(h, index, v)
    \/ CanCall /\ \E h \in Handles, v \in CowValues : Push(h, v)
    \/ CanCall /\ \E h \in Handles : Pop(h)
    \/ CanCall /\ \E h \in Handles, index \in Indices, v \in CowValues : Insert(h, index, v)
    \/ CanCall /\ \E h \in Handles, index \in Indices : Remove(h, index)
    \/ CanCall /\ \E h \in Handles, vs \in SeqsUpTo(CowValues, 2) : Extend(h, vs)
    \/ CanCall /\ \E h \in Handles, rhs \in Handles : AddAssign(h, rhs)

(* Any sequence of calls on the handles, from one empty array. *)
Spec == Init /\ [][Next]_vars

(* The heap with handle 1 holding s, and handle 2 either not alive         *)
(* ("alone"), a clone of handle 1 ("shared"), or an equal array of its own *)
(* ("apart").                                                              *)
HeapOf(s, mode) ==
    LET H1 == Alloc(EmptyHeap, 1, s)
    IN IF mode = "shared" THEN EcoClone(H1, 1, 2)
       ELSE IF mode = "apart" THEN Alloc(H1, 2, s)
       ELSE H1

InitFrom(S, modes, traced, n) ==
    /\ usizeMax \in Platforms
    /\ \E s \in SeqsUpTo(S, Cap), mode \in modes :
          /\ bufs = HeapOf(s, mode).bufs
          /\ arr = HeapOf(s, mode).arr
    /\ last = NoCall
    /\ prev = NoCall
    /\ tracing = traced
    /\ fuel = n
    /\ out = NoOut

(* One traced call, on any array, shared or not. *)
InitCall == InitFrom(CowValues, {"alone", "shared", "apart"}, TRUE, 1)
SpecCall == InitCall /\ [][Next]_vars

(* Two traced calls of insert and remove, on any array, shared or not. *)
InitRT == InitFrom(CowValues, {"alone", "shared"}, TRUE, 2)
NextRT ==
    \/ CanCall /\ \E index \in Indices, v \in CowValues : Insert(1, index, v)
    \/ CanCall /\ \E index \in Indices : Remove(1, index)
SpecRT == InitRT /\ [][NextRT]_vars

----------------------------------------------------------------------------
(* Properties of the mutating methods *)

Mutators == {"first_mut", "last_mut", "at_mut", "push", "pop", "insert", "remove",
             "extend", "add_assign"}

(* C1: value semantics under sharing.  In every step of every sequence of  *)
(* clones and mutating calls, each handle other than the receiver of the   *)
(* call that stays alive shows the same elements (and so the same length)  *)
(* after the call as before it, whether or not it shared the receiver's    *)
(* buffer when the call was made.                                          *)
C1_ValueSemantics ==
    [][\A g \in Handles :
         (Live(g) /\ Live(g)' /\ g # last'.h) => View(g)' = View(g)]_vars

(* C1: a write went through a handle whose buffer was shared, and the      *)
(* other handle now shows different elements.                              *)
C1_Witness ==
    /\ last.op \in Mutators /\ last.shared /\ last.res.ok
    /\ \E g \in Handles \ {last.h} : Live(g) /\ View(g) # View(last.h)

InRange(i, lo, hi) == lo <= i /\ i <= hi

(* When the traced call fails as the method says it may. *)
FailsWhen(c) ==
    LET n == Len(c.before[c.h])
    IN CASE c.op \in {"pop", "first_mut", "last_mut"} -> n = 0
         [] c.op = "insert" -> ~InRange(c.index, -n, n)
         [] c.op \in {"remove", "at_mut"} -> ~InRange(c.index, -n, n - 1)
         [] OTHER -> FALSE

ErrorOf(c) ==
    IF c.op \in {"pop", "first_mut", "last_mut"} THEN array_is_empty
    ELSE out_of_bounds(c.index, Len(c.before[c.h]))

(* C10: no partial mutation on error.  A mutating call fails exactly when  *)
(* pop, first_mut or last_mut meets an empty array, insert an index        *)
(* outside [-len, len], remove or at_mut an index outside [-len, len); it  *)
(* then returns "array is empty", or out-of-bounds with the index and len, *)
(* and every handle, the receiver and those sharing its buffer included,   *)
(* is alive as before with the elements it had before the call.            *)
C10_NoPartialMutation ==
    last.op \in Mutators =>
        /\ ~last.res.ok <=> FailsWhen(last)
        /\ ~last.res.ok =>
            /\ last.res.err = ErrorOf(last)
            /\ {g \in Handles : Live(g)} = last.lives
            /\ \A g \in last.lives : View(g) = last.before[g]

(* C10: an out-of-bounds remove or at_mut on a handle whose buffer is      *)
(* shared has failed.                                                      *)
C10_Witness ==
    /\ last.op \in {"remove", "at_mut"} /\ ~last.res.ok /\ last.shared
    /\ Len(last.before[last.h]) > 0

(* insert(i, v) succeeded and remove(i) with the same i followed it. *)
RoundTrip ==
    /\ prev.op = "insert" /\ prev.res.ok
    /\ last.op = "remove" /\ last.h = prev.h /\ last.index = prev.index

(* C2 as stated: for every index insert accepts, negative ones included,   *)
(* insert(i, v) then remove(i) returns v and restores the array.           *)
C2_RoundTripAnyIndex ==
    RoundTrip =>
        /\ last.res.ok
        /\ last.res.val = prev.value
        /\ View(last.h) = prev.before[prev.h]

(* C2, amended: insert accepts exactly the i with -len <= i <= len.  For   *)
(* 0 <= i <= len, insert(i, v) then remove(i) returns v and restores the   *)
(* original length and order.  For -len <= i < 0, remove(i) returns the    *)
(* original element at offset len + i and leaves v in its place.           *)
C2_RoundTrip ==
    LET a == prev.before[prev.h]
        n == Len(a)
        i == prev.index
    IN /\ prev.op = "insert" => (prev.res.ok <=> InRange(i, -n, n))
       /\ RoundTrip =>
            /\ last.res.ok
            /\ i >= 0 => last.res.val = prev.value /\ View(last.h) = a
            /\ i < 0 => /\ last.res.val = a[n + i + 1]
                        /\ View(last.h) = SetAt(a, n + i, prev.value)

(* C2: a round trip at a positive index has been made on a shared array,   *)
(* and one at a negative index.                                            *)
C2_Witness == RoundTrip /\ prev.index > 0 /\ prev.shared /\ Len(View(last.h)) > 1
C2_WitnessNegative == RoundTrip /\ prev.index < 0 /\ last.res.val # prev.value

----------------------------------------------------------------------------
(* One read-only call on the array of handle 1 *)

Self == View(1)

(* No read-only call has been made yet. *)
Idle == out.op = "none"

Answer(op, a, b, opt, res, calls) ==
    /\ Idle
    /\ out' = [NoOut EXCEPT !.op = op, !.a = a, !.b = b, !.opt = opt, !.self = Self,
                            !.calls = calls, !.res = res]
    /\ UNCHANGED <<usizeMax, last, prev, tracing, fuel>>

At(index) == Answer("at", index, 0, FALSE, at(Self, index), <<>>) /\ UNCHANGED <<bufs, arr>>

Slice(start, end) ==
    /\ Answer("slice", start, end.v, end.some, slice(Self, start, end), <<>>)
    /\ UNCHANGED <<bufs, arr>>

Repeat(n) == Answer("repeat", n, 0, FALSE, repeat(Self, n), <<>>) /\ UNCHANGED <<bufs, arr>>

Sorted ==
    LET r == sorted(Heap, 1)
    IN /\ Answer("sorted", 0, 0, FALSE, r.res, r.calls)
       /\ bufs' = r.H.bufs
       /\ arr' = r.H.arr

OptI64 == {None} \cup {Some(i) : i \in I64}

InitPure == InitFrom(Values, {"alone"}, FALSE, 0)

NextPure ==
    \/ Idle /\ \E index \in I64 : At(index)
    \/ Idle /\ \E start \in I64, end \in OptI64 : Slice(start, end)
    \/ Idle /\ \E n \in I64 : Repeat(n)
    \/ Idle /\ Sorted

SpecPure == InitPure /\ [][NextPure]_vars

----------------------------------------------------------------------------
(* Properties of the read-only methods *)

(* The negative-wrap rule: the storage offset of index i in an array of    *)
(* length n, among the offsets 0..hi.                                      *)
Resolves(i, n, hi) == (0 <= i /\ i <= hi) \/ (-n <= i /\ i < 0)
Offset(i, n) == IF i >= 0 THEN i ELSE n + i

(* C3: at(i) on an array of length len succeeds exactly when               *)
(* -len <= i < len, with the element at offset i (i >= 0) or len + i       *)
(* (i < 0); any other i fails with out-of-bounds carrying i and len.       *)
C3_At ==
    out.op = "at" =>
        LET n == Len(out.self)
            i == out.a
        IN IF -n <= i /\ i < n
           THEN out.res.ok /\ out.res.val = out.self[Offset(i, n) + 1]
           ELSE ~out.res.ok /\ out.res.err = out_of_bounds(i, n)

(* C3: at(-1) succeeded on an array of two or more elements; at(len) and   *)
(* at(-len - 1) failed on a non-empty array.                               *)
C3_Witness == out.op = "at" /\ out.a = -1 /\ out.res.ok /\ Len(out.self) > 1
C3_WitnessLen == out.op = "at" /\ out.a = Len(out.self) /\ out.a > 0 /\ ~out.res.ok
C3_WitnessBelow == out.op = "at" /\ out.a = -Len(out.self) - 1 /\ out.a < -1 /\ ~out.res.ok

(* C4: slice(start, end) succeeds exactly when start and end (len when     *)
(* omitted) each resolve to an offset s, e in 0..=len; it returns the      *)
(* elements at offsets s up to but excluding max(s, e); it fails with      *)
(* out-of-bounds carrying the unresolvable index as given and len; an      *)
(* omitted end gives what Some(len) gives; the source is unchanged.        *)
C4_Slice ==
    out.op = "slice" =>
        LET a == out.self
            n == Len(a)
            start == out.a
            end == IF out.opt THEN out.b ELSE n
            s == Offset(start, n)
            e == Offset(end, n)
        IN /\ out.res.ok <=> Resolves(start, n, n) /\ Resolves(end, n, n)
           /\ out.res.ok =>
                /\ Len(out.res.items) = Max(s, e) - s
                /\ \A j \in 1..Len(out.res.items) : out.res.items[j] = a[s + j]
           /\ ~out.res.ok =>
                out.res.err = out_of_bounds(IF Resolves(start, n, n) THEN end ELSE start, n)
           /\ ~out.opt => out.res = slice(a, start, Some(n))
           /\ Self = a

(* C4: a slice whose resolved end lies before its resolved start returned  *)
(* the empty array; a non-empty slice was taken with a negative start and  *)
(* no end.                                                                 *)
C4_Witness ==
    /\ out.op = "slice" /\ out.opt /\ out.res.ok /\ out.res.items = <<>>
    /\ Offset(out.b, Len(out.self)) < Offset(out.a, Len(out.self))
C4_WitnessOpen ==
    out.op = "slice" /\ ~out.opt /\ out.a < 0 /\ out.res.ok /\ Len(out.res.items) > 1

(* The source cycled: count elements, the one at offset j being the source *)
(* element at offset j mod len.                                            *)
Cycled(a, items, count) ==
    /\ Len(items) = count
    /\ \A j \in 0..(count - 1) : items[j + 1] = a[(j % Len(a)) + 1]

(* C9 as stated: repeat(n) fails exactly when n is negative or len * n     *)
(* overflows usize.                                                        *)
C9_RepeatFailsOnlyOnOverflow ==
    out.op = "repeat" =>
        (~out.res.ok <=> (out.a < 0 \/ Len(out.self) * out.a > usizeMax))

(* C9, amended: repeat(n) fails, with an error naming n, exactly when n is *)
(* negative, n itself does not fit usize (a build whose usize is narrower  *)
(* than i64), or len * n overflows usize; otherwise it returns len * n     *)
(* elements, the one at offset j being the source element at offset        *)
(* j mod len; the source is unchanged.                                     *)
C9_Repeat ==
    out.op = "repeat" =>
        LET a == out.self
            n == out.a
        IN /\ ~out.res.ok <=> (n < 0 \/ n > usizeMax \/ Len(a) * n > usizeMax)
           /\ ~out.res.ok => out.res.err = CannotRepeat(n)
           /\ out.res.ok => Cycled(a, out.res.items, Len(a) * n)
           /\ Self = a

(* C9: repeat(3) on a 2-element array returned 6 elements; repeat failed   *)
(* on an overflow with n >= 0; repeat(0) returned the empty array.         *)
C9_Witness == out.op = "repeat" /\ out.a = 3 /\ Len(out.self) = 2 /\ Len(out.res.items) = 6
C9_WitnessOverflow ==
    out.op = "repeat" /\ ~out.res.ok /\ out.a > 0 /\ out.a <= usizeMax /\ Len(out.self) > 1
C9_WitnessZero == out.op = "repeat" /\ out.a = 0 /\ out.res.ok /\ Len(out.self) > 0

Incomparable(pair) == ~partial_cmp(pair[1], pair[2]).some

Orderings(n) == {p \in [1..n -> 1..n] : \A i, j \in 1..n : p[i] = p[j] => i = j}

(* b is a with its elements in non-descending order, equal-comparing ones  *)
(* in their order in a.                                                    *)
StableSorted(a, b) ==
    /\ Len(b) = Len(a)
    /\ \E p \in Orderings(Len(a)) :
          /\ \A i \in 1..Len(a) : b[i] = a[p[i]]
          /\ \A i, j \in 1..Len(a) :
                i < j => LET c == partial_cmp(b[i], b[j])
                         IN c.some /\ (c.ord = "Less" \/ (c.ord = "Equal" /\ p[i] < p[j]))

Ascending(a) ==
    \A i, j \in 1..Len(a) :
        i < j => partial_cmp(a[i], a[j]).some /\ partial_cmp(a[i], a[j]).ord # "Greater"

(* C8: sorted() returns an array exactly when no pair the comparator was   *)
(* called on was incomparable; the array is then the stable non-descending *)
(* permutation of the source (the source itself when that is ascending);   *)
(* otherwise it returns the one error naming the type names of the first   *)
(* incomparable pair the comparator met; the source is unchanged and the   *)
(* local buffer is released.                                               *)
C8_Sorted ==
    out.op = "sorted" =>
        LET a == out.self
            bad == {k \in 1..Len(out.calls) : Incomparable(out.calls[k])}
        IN /\ out.res.ok <=> bad = {}
           /\ out.res.ok => StableSorted(a, out.res.items)
           /\ (out.res.ok /\ Ascending(a)) => out.res.items = a
           /\ ~out.res.ok =>
                LET k == CHOOSE k \in bad : \A m \in bad : k <= m
                IN /\ out.res.err = CannotOrder(type_name(out.calls[k][1]),
                                                type_name(out.calls[k][2]))
                   /\ out.res.items = <<>>
           /\ Self = a
           /\ ~Alive(Heap, Tmp)

(* C8: a sort that moved elements and kept two equal-comparing ones in     *)
(* source order; a sort that met two incomparable pairs of different type  *)
(* names.                                                                  *)
C8_Witness ==
    /\ out.op = "sorted" /\ out.res.ok /\ out.res.items # out.self
    /\ \E i, j \in 1..Len(out.self) :
          i < j /\ out.self[i] # out.self[j]
                /\ partial_cmp(out.self[i], out.self[j]).ord = "Equal"
C8_WitnessError ==
    /\ out.op = "sorted" /\ ~out.res.ok
    /\ \E k, m \in 1..Len(out.calls) :
          /\ k < m /\ Incomparable(out.calls[k]) /\ Incomparable(out.calls[m])
          /\ type_name(out.calls[k][1]) # type_name(out.calls[m][1])

----------------------------------------------------------------------------
(* One higher-order call on the array of handle 1 *)

Argcs == {None} \cup {Some(c) : c \in 0..3}
Oracles == [1..Len(Self) -> Outcomes]
Inits == {NoneV, Int2}

Invoke(op, init, argc, oracle, r) ==
    /\ Idle
    /\ out' = [NoOut EXCEPT !.op = op, !.init = init, !.argc = argc, !.oracle = oracle,
                            !.self = Self, !.calls = r.calls, !.res = r.res]
    /\ UNCHANGED <<usizeMax, bufs, arr, last, prev, tracing, fuel>>

Find(argc, oracle) == Invoke("find", NoneV, argc, oracle, find(Self, argc, oracle))
Position(argc, oracle) == Invoke("position", NoneV, argc, oracle, position(Self, argc, oracle))
Filter(argc, oracle) == Invoke("filter", NoneV, argc, oracle, filter(Self, argc, oracle))
Map(argc, oracle) == Invoke("map", NoneV, argc, oracle, map(Self, argc, oracle))
Fold(init, argc, oracle) == Invoke("fold", init, argc, oracle, fold(Self, init, argc, oracle))
Any(argc, oracle) == Invoke("any", NoneV, argc, oracle, any(Self, argc, oracle))
All(argc, oracle) == Invoke("all", NoneV, argc, oracle, all(Self, argc, oracle))

InitHof == InitFrom(CowValues, {"alone"}, FALSE, 0)

NextHof ==
    \/ Idle /\ \E argc \in Argcs, oracle \in Oracles : Find(argc, oracle)
    \/ Idle /\ \E argc \in Argcs, oracle \in Oracles : Position(argc, oracle)
    \/ Idle /\ \E argc \in Argcs, oracle \in Oracles : Filter(argc, oracle)
    \/ Idle /\ \E argc \in Argcs, oracle \in Oracles : Map(argc, oracle)
    \/ Idle /\ \E init \in Inits, argc \in Argcs, oracle \in Oracles : Fold(init, argc, oracle)
    \/ Idle /\ \E argc \in Argcs, oracle \in Oracles : Any(argc, oracle)
    \/ Idle /\ \E argc \in Argcs, oracle \in Oracles : All(argc, oracle)

SpecHof == InitHof /\ [][NextHof]_vars

----------------------------------------------------------------------------
(* Properties of the higher-order methods *)

Predicates == {"find", "position", "filter", "any", "all"}
ShortCircuits == {"find", "position", "any", "all"}
HigherOrder == Predicates \cup {"map", "fold"}

(* The parameter count is known and is not one the method accepts. *)
WrongArity(o) ==
    /\ o.argc.some
    /\ CASE o.op = "map" -> o.argc.v \notin {1, 2}
         [] o.op = "fold" -> o.argc.v # 2
         [] OTHER -> o.argc.v # 1

ArityError(op) ==
    IF op = "map" THEN OneOrTwo ELSE IF op = "fold" THEN ExactlyTwo ELSE ExactlyOne

Least(S) == CHOOSE k \in S : \A m \in S : k <= m

(* The k-th invocation's outcome is a failure of the callable, or, for a   *)
(* predicate, a result that is not a boolean.                              *)
Bad(o, k) == o.oracle[k].fails \/ (o.op \in Predicates /\ o.oracle[k].val.t # "boolean")
FailureOf(o, k) == IF o.oracle[k].fails THEN CallFailed(k) ELSE CastFailed(k)

(* The deciding result: true for find, position and any, false for all. *)
Decides(o, k) ==
    /\ ~Bad(o, k)
    /\ o.oracle[k].val = BoolV(o.op # "all")

(* The invocations were on the elements at offsets 0, 1, ... in order. *)
InOrder(o) ==
    \A k \in 1..Len(o.calls) :
        o.calls[k][Len(o.calls[k])] = o.self[k]

(* C5: with a callable that never fails and always returns a boolean,      *)
(* find, position, any and all invoke it on the elements in index order    *)
(* from offset 0 and stop at the first deciding result (true; false for    *)
(* all): with k the first deciding offset, k + 1 calls are made and the    *)
(* result is element k, index k, true, or false for all; with none, len    *)
(* calls are made and the result is no-match, no-match, false, or true for *)
(* all, never an error.                                                    *)
C5_ShortCircuit ==
    (/\ out.op \in ShortCircuits
     /\ ~WrongArity(out)
     /\ \A k \in 1..Len(out.self) : ~Bad(out, k)) =>
        LET n == Len(out.self)
            deciding == {k \in 1..n : Decides(out, k)}
        IN /\ out.res.ok
           /\ InOrder(out)
           /\ \A k \in 1..Len(out.calls) : Len(out.calls[k]) = 1
           /\ IF deciding # {}
              THEN LET k == Least(deciding)
                   IN /\ Len(out.calls) = k
                      /\ out.res = CASE out.op = "find" -> OkSome(out.self[k])
                                     [] out.op = "position" -> OkIdx(k - 1)
                                     [] out.op = "any" -> OkBool(TRUE)
                                     [] out.op = "all" -> OkBool(FALSE)
              ELSE /\ Len(out.calls) = n
                   /\ out.res = CASE out.op \in {"find", "position"} -> OkNone
                                  [] out.op = "any" -> OkBool(FALSE)
                                  [] out.op = "all" -> OkBool(TRUE)

(* C5: any and all stopped at the second of three elements; find ran over  *)
(* three elements without a match.                                         *)
C5_Witness ==
    /\ out.op \in {"any", "all"} /\ out.argc = Some(1) /\ Len(out.self) = 3
    /\ out.res.ok /\ Len(out.calls) = 2
C5_WitnessNoMatch ==
    /\ out.op = "find" /\ Len(out.self) = 3 /\ out.res = OkNone /\ Len(out.calls) = 3

(* C6: fail-fast propagation.  For find, position, filter, map, fold, any  *)
(* and all: when the invocation on the element at offset k is the first    *)
(* that fails (or, for the predicate methods, whose result is not a        *)
(* boolean) and no earlier result stopped the method, the method returns   *)
(* exactly that failure after exactly k + 1 invocations, in index order,   *)
(* with no array, value or accumulator, and the source is unchanged; and a *)
(* method whose arity check passed fails in no other case.                 *)
C6_FailFast ==
    (out.op \in HigherOrder /\ ~WrongArity(out)) =>
        LET n == Len(out.self)
            bad == {k \in 1..n : Bad(out, k)}
            reached == {k \in bad :
                          out.op \in ShortCircuits =>
                              \A m \in 1..(k - 1) : ~Decides(out, m)}
        IN /\ ~out.res.ok <=> reached # {}
           /\ reached # {} =>
                LET k == Least(bad)
                IN /\ out.res = Fail(FailureOf(out, k))
                   /\ Len(out.calls) = k
                   /\ InOrder(out)
           /\ Self = out.self

(* C6: map, fold and filter failed on the second of three elements. *)
C6_Witness ==
    /\ out.op \in {"map", "fold", "filter"} /\ Len(out.self) = 3
    /\ ~out.res.ok /\ Len(out.calls) = 2 /\ ~Bad(out, 1) /\ Bad(out, 3)
C6_WitnessCast ==
    /\ out.op \in Predicates /\ ~out.res.ok /\ out.res.err.kind = "expected boolean"
    /\ Len(out.calls) > 1

(* C7: arity is validated before any invocation.  On every array, the      *)
(* empty one included, a known parameter count that is not 1 (find,        *)
(* position, filter, any, all), not 2 (fold), or neither 1 nor 2 (map)     *)
(* makes the method fail with its arity error without invoking the         *)
(* callable; an accepted or unknown count raises no arity error.           *)
C7_Arity ==
    out.op \in HigherOrder =>
        IF WrongArity(out)
        THEN out.res = Fail(ArityError(out.op)) /\ out.calls = <<>>
        ELSE out.res.err \notin {ExactlyOne, OneOrTwo, ExactlyTwo}

(* C7: map with a three-parameter callable failed on a non-empty array     *)
(* whose callable would have succeeded; a method ran with the parameter    *)
(* count unknown.                                                          *)
C7_Witness ==
    /\ out.op = "map" /\ out.argc = Some(3) /\ Len(out.self) > 1
    /\ \A k \in 1..Len(out.self) : ~out.oracle[k].fails
    /\ ~out.res.ok
C7_WitnessUnknown ==
    out.op \in HigherOrder /\ ~out.argc.some /\ out.res.ok /\ Len(out.calls) > 1

====
